---- MODULE Spec2Model ----
(***************************************************************************)
(* Model of the Gyroscope audio graph (src/src/graph/mod.rs): node         *)
(* registration, patching with validation, and the topological ordering    *)
(* with cycle / incompleteness detection; the older patch of               *)
(* src/src/graph.rs; and the output channel of the constant node           *)
(* (src/src/graph/nodes/constant.rs).                                      *)
(***************************************************************************)
EXTENDS Integers, Sequences, FiniteSets, TLC

\* ---- bounds of the model ------------------------------------------------
\* calls of the client: at most MaxNodes nodes with at most MaxSlots input
\* slots in all, each node with 0..MaxInputs inputs and 0..MaxOutputs outputs
MaxNodes == 2
MaxSlots == 3
MaxInputs == 2
MaxOutputs == 1
\* graphs handed to compute_order: at most GraphNodes nodes and GraphSlots slots
GraphNodes == 4
GraphSlots == 4
\* the constant channel: count of at most MaxCount, destination buffers of at
\* most MaxLen samples, samples in 0..MaxSample
MaxCount == 4
MaxLen == 6
MaxSample == 1

\* ---- state: the fields of Graph, plus the last call and its return value
VARIABLES nodes, order, dirty, call, result

\* ---- state: what the last compute_order call did with the call stack
\* [frames, deepest, twice], as in the traversal state below
VARIABLE recursion

\* ---- state: the constant node's Out channel and the caller's buffer
VARIABLES out, dst

vars == <<nodes, order, dirty, call, result, recursion, out, dst>>

\* before the first compute_order call
NoRecursion == [frames |-> <<>>, deepest |-> 0, twice |-> {}]

\* Option<(NodeID, OutputID)>: None is the empty tuple, Some((n, o)) is <<n, o>>
None == <<>>

Some(n, o) == <<n, o>>

\* ---- graph::Error and the Ok variants ------------------------------------
Ok == <<"Ok">>

NoSuchNode(n) == <<"NoSuchNode", n>>

NoSuchInput(n, i) == <<"NoSuchInput", n, i>>

InputAlreadyPatched(n, i) == <<"InputAlreadyPatched", n, i>>

NoSuchOutput(n, o) == <<"NoSuchOutput", n, o>>

IncompleteGraph(n) == <<"IncompleteGraph", n>>

CycleDetected == <<"CycleDetected">>

\* the failed assert! of topo_sort_visit
Panic == <<"Panic">>

\* NodeIDs index a Vec from 0; sequences start at 1
NodeWrapper(ns, id) == ns[id + 1]

\* ---- Graph::new ------------------------------------------------------------
Init ==
    /\ nodes = <<>>
    /\ order = <<>>
    /\ dirty = FALSE
    /\ call = <<"new">>
    /\ result = Ok
    /\ recursion = NoRecursion
    /\ out = None
    /\ dst = <<>>

\* ---- Graph::add_node -------------------------------------------------------
\* variant: the id is taken after the node is pushed
add_node_id_after_push(num_inputs, num_outputs) ==
    /\ LET inputs == [k \in 1..num_inputs |-> None]
           id == Len(nodes) + 1
       IN /\ nodes' = Append(nodes, [num_inputs |-> num_inputs,
                                     num_outputs |-> num_outputs,
                                     inputs |-> inputs])
          /\ dirty' = TRUE
          /\ call' = <<"add_node", num_inputs, num_outputs>>
          /\ result' = <<"NodeID", id>>
    /\ UNCHANGED <<order, recursion, out, dst>>

\* variant: the slots are as many as the outputs of the node
add_node_slots_from_outputs(num_inputs, num_outputs) ==
    /\ LET inputs == [k \in 1..num_outputs |-> None]
           id == Len(nodes)
       IN /\ nodes' = Append(nodes, [num_inputs |-> num_inputs,
                                     num_outputs |-> num_outputs,
                                     inputs |-> inputs])
          /\ dirty' = TRUE
          /\ call' = <<"add_node", num_inputs, num_outputs>>
          /\ result' = <<"NodeID", id>>
    /\ UNCHANGED <<order, recursion, out, dst>>

add_node(num_inputs, num_outputs) ==
    /\ LET inputs == [k \in 1..num_inputs |-> None]
           id == Len(nodes)
       IN /\ nodes' = Append(nodes, [num_inputs |-> num_inputs,
                                     num_outputs |-> num_outputs,
                                     inputs |-> inputs])
          /\ dirty' = TRUE
          /\ call' = <<"add_node", num_inputs, num_outputs>>
          /\ result' = <<"NodeID", id>>
    /\ UNCHANGED <<order, recursion, out, dst>>

\* ---- Graph::patch ----------------------------------------------------------
\* variant: both node lookups before the channel checks
patch_call_nodes_first(ns, o_node, o_chan, i_node, i_chan) ==
    IF o_node >= Len(ns)
    THEN [nodes |-> ns, result |-> NoSuchNode(o_node)]
    ELSE IF i_node >= Len(ns)
    THEN [nodes |-> ns, result |-> NoSuchNode(i_node)]
    ELSE IF NodeWrapper(ns, o_node).num_outputs <= o_chan
    THEN [nodes |-> ns, result |-> NoSuchOutput(o_node, o_chan)]
    ELSE IF i_chan >= Len(NodeWrapper(ns, i_node).inputs)
    THEN [nodes |-> ns, result |-> NoSuchInput(i_node, i_chan)]
    ELSE LET old == NodeWrapper(ns, i_node).inputs[i_chan + 1]
         IN [nodes |-> [ns EXCEPT ![i_node + 1].inputs[i_chan + 1] = Some(o_node, o_chan)],
             result |-> IF old # None THEN InputAlreadyPatched(i_node, i_chan) ELSE Ok]

\* variant: the input side validated before the output side
patch_call_input_first(ns, o_node, o_chan, i_node, i_chan) ==
    IF i_node >= Len(ns)
    THEN [nodes |-> ns, result |-> NoSuchNode(i_node)]
    ELSE IF i_chan >= Len(NodeWrapper(ns, i_node).inputs)
    THEN [nodes |-> ns, result |-> NoSuchInput(i_node, i_chan)]
    ELSE IF o_node >= Len(ns)
    THEN [nodes |-> ns, result |-> NoSuchNode(o_node)]
    ELSE IF NodeWrapper(ns, o_node).num_outputs <= o_chan
    THEN [nodes |-> ns, result |-> NoSuchOutput(o_node, o_chan)]
    ELSE LET old == NodeWrapper(ns, i_node).inputs[i_chan + 1]
         IN [nodes |-> [ns EXCEPT ![i_node + 1].inputs[i_chan + 1] = Some(o_node, o_chan)],
             result |-> IF old # None THEN InputAlreadyPatched(i_node, i_chan) ELSE Ok]

\* variant: the output channel checked after the binding is written
patch_call_late_output_check(ns, o_node, o_chan, i_node, i_chan) ==
    IF o_node >= Len(ns)
    THEN [nodes |-> ns, result |-> NoSuchNode(o_node)]
    ELSE IF i_node >= Len(ns)
    THEN [nodes |-> ns, result |-> NoSuchNode(i_node)]
    ELSE IF i_chan >= Len(NodeWrapper(ns, i_node).inputs)
    THEN [nodes |-> ns, result |-> NoSuchInput(i_node, i_chan)]
    ELSE LET old == NodeWrapper(ns, i_node).inputs[i_chan + 1]
         IN [nodes |-> [ns EXCEPT ![i_node + 1].inputs[i_chan + 1] = Some(o_node, o_chan)],
             result |-> IF NodeWrapper(ns, o_node).num_outputs <= o_chan
                        THEN NoSuchOutput(o_node, o_chan)
                        ELSE IF old # None THEN InputAlreadyPatched(i_node, i_chan) ELSE Ok]

\* variant: a slot that is already bound keeps its binding
patch_call_keep_first(ns, o_node, o_chan, i_node, i_chan) ==
    IF o_node >= Len(ns)
    THEN [nodes |-> ns, result |-> NoSuchNode(o_node)]
    ELSE IF NodeWrapper(ns, o_node).num_outputs <= o_chan
    THEN [nodes |-> ns, result |-> NoSuchOutput(o_node, o_chan)]
    ELSE IF i_node >= Len(ns)
    THEN [nodes |-> ns, result |-> NoSuchNode(i_node)]
    ELSE IF i_chan >= Len(NodeWrapper(ns, i_node).inputs)
    THEN [nodes |-> ns, result |-> NoSuchInput(i_node, i_chan)]
    ELSE LET old == NodeWrapper(ns, i_node).inputs[i_chan + 1]
         IN IF old # None
            THEN [nodes |-> ns, result |-> InputAlreadyPatched(i_node, i_chan)]
            ELSE [nodes |-> [ns EXCEPT ![i_node + 1].inputs[i_chan + 1] = Some(o_node, o_chan)],
                  result |-> Ok]

\* variant: the output channel is not checked
patch_call_no_output_check(ns, o_node, o_chan, i_node, i_chan) ==
    IF o_node >= Len(ns)
    THEN [nodes |-> ns, result |-> NoSuchNode(o_node)]
    ELSE IF i_node >= Len(ns)
    THEN [nodes |-> ns, result |-> NoSuchNode(i_node)]
    ELSE IF i_chan >= Len(NodeWrapper(ns, i_node).inputs)
    THEN [nodes |-> ns, result |-> NoSuchInput(i_node, i_chan)]
    ELSE LET old == NodeWrapper(ns, i_node).inputs[i_chan + 1]
         IN [nodes |-> [ns EXCEPT ![i_node + 1].inputs[i_chan + 1] = Some(o_node, o_chan)],
             result |-> IF old # None THEN InputAlreadyPatched(i_node, i_chan) ELSE Ok]

\* the value returned and the nodes after the call
patch_call(ns, o_node, o_chan, i_node, i_chan) ==
    IF o_node >= Len(ns)
    THEN [nodes |-> ns, result |-> NoSuchNode(o_node)]
    ELSE IF NodeWrapper(ns, o_node).num_outputs <= o_chan
    THEN [nodes |-> ns, result |-> NoSuchOutput(o_node, o_chan)]
    ELSE IF i_node >= Len(ns)
    THEN [nodes |-> ns, result |-> NoSuchNode(i_node)]
    ELSE IF i_chan >= Len(NodeWrapper(ns, i_node).inputs)
    THEN [nodes |-> ns, result |-> NoSuchInput(i_node, i_chan)]
    ELSE LET old == NodeWrapper(ns, i_node).inputs[i_chan + 1]
         IN [nodes |-> [ns EXCEPT ![i_node + 1].inputs[i_chan + 1] = Some(o_node, o_chan)],
             result |-> IF old # None THEN InputAlreadyPatched(i_node, i_chan) ELSE Ok]

patch(o_node, o_chan, i_node, i_chan) ==
    \E r \in {patch_call(nodes, o_node, o_chan, i_node, i_chan)} :
       /\ nodes' = r.nodes
       /\ result' = r.result
       /\ call' = <<"patch", o_node, o_chan, i_node, i_chan>>
       /\ UNCHANGED <<order, dirty, recursion, out, dst>>

\* ---- Graph::topo_sort_visit ------------------------------------------------
\* st = [marked, on_stack: the two BitSets; order: self.order; err: Ok or the error;
\*       frames: the ids of the calls of topo_sort_visit that have not returned,
\*       outermost first; deepest: the largest number of such calls so far;
\*       twice: the ids a call was made for while an earlier call for the same
\*       id had not returned]
RECURSIVE topo_sort_visit(_, _, _)
RECURSIVE visit_inputs(_, _, _, _)

\* a call of topo_sort_visit(id) is made
enter_call(st, id) ==
    [st EXCEPT !.frames = Append(@, id),
               !.deepest = IF Len(st.frames) + 1 > @ THEN Len(st.frames) + 1 ELSE @,
               !.twice = IF \E i \in 1..Len(st.frames) : st.frames[i] = id
                         THEN @ \cup {id} ELSE @]

\* the call returns
leave_call(s) == [s EXCEPT !.frames = SubSeq(@, 1, Len(@) - 1)]

\* try! in the loop over the inputs: s is the state the recursive call returned;
\* an error is returned at once, otherwise the loop goes on with input k + 1
try_input(ns, s, id, k) ==
    IF s.err # Ok THEN s ELSE visit_inputs(ns, s, id, k + 1)

\* variant: an unbound input is skipped instead of reported
visit_inputs_skip_unbound(ns, st, id, k) ==
    IF k > Len(NodeWrapper(ns, id).inputs) THEN st
    ELSE IF NodeWrapper(ns, id).inputs[k] = None
    THEN visit_inputs(ns, st, id, k + 1)
    ELSE try_input(ns, topo_sort_visit(ns, st, NodeWrapper(ns, id).inputs[k][1]), id, k)

\* the loop over the cloned inputs of node id, from the k-th input on
visit_inputs(ns, st, id, k) ==
    IF k > Len(NodeWrapper(ns, id).inputs) THEN st
    ELSE IF NodeWrapper(ns, id).inputs[k] = None
    THEN [st EXCEPT !.err = IncompleteGraph(id)]
    ELSE try_input(ns, topo_sort_visit(ns, st, NodeWrapper(ns, id).inputs[k][1]), id, k)

\* variant: the node is put at the front of the order
finish_visit_prepend(s, id) ==
    IF s.err # Ok THEN s
    ELSE [s EXCEPT !.marked = @ \cup {id}, !.order = <<id>> \o @, !.on_stack = @ \ {id}]

\* after the loop, s being the state it returned: an error of the loop has
\* already left the function; otherwise mark id, push it and take it off the stack
finish_visit(s, id) ==
    IF s.err # Ok THEN s
    ELSE [s EXCEPT !.marked = @ \cup {id},
                   !.order = Append(@, id),
                   !.on_stack = @ \ {id}]

\* variant of finish_visit for topo_sort_visit_preorder
finish_visit_pushed(s, id) ==
    IF s.err # Ok THEN s ELSE [s EXCEPT !.on_stack = @ \ {id}]

\* variant of finish_visit for topo_sort_visit_one_set
finish_visit_marked(s, id) ==
    IF s.err # Ok THEN s ELSE [s EXCEPT !.order = Append(@, id)]

\* variant of finish_visit for topo_sort_visit_no_remove
finish_visit_no_remove(s, id) ==
    IF s.err # Ok THEN s
    ELSE [s EXCEPT !.marked = @ \cup {id}, !.order = Append(@, id)]

\* variant: the node is marked and appended to the order before its inputs
\* are visited
topo_sort_visit_preorder(ns, st, id) ==
    IF ~(id < Len(ns)) THEN [st EXCEPT !.err = Panic]
    ELSE IF id \in st.on_stack THEN [st EXCEPT !.err = CycleDetected]
    ELSE IF id \notin st.marked
    THEN finish_visit_pushed(visit_inputs(ns, [st EXCEPT !.on_stack = @ \cup {id},
                                                         !.marked = @ \cup {id},
                                                         !.order = Append(@, id)], id, 1), id)
    ELSE [st EXCEPT !.on_stack = (@ \cup {id}) \ {id}]

\* variant: one visited set, marked on entry, and no on_stack set
topo_sort_visit_one_set(ns, st, id) ==
    IF ~(id < Len(ns)) THEN [st EXCEPT !.err = Panic]
    ELSE IF id \in st.marked THEN st
    ELSE finish_visit_marked(visit_inputs(ns, [st EXCEPT !.marked = @ \cup {id}], id, 1), id)

\* variant: the node stays in on_stack when the visit returns
topo_sort_visit_no_remove(ns, st, id) ==
    IF ~(id < Len(ns)) THEN [st EXCEPT !.err = Panic]
    ELSE IF id \in st.on_stack THEN [st EXCEPT !.err = CycleDetected]
    ELSE IF id \notin st.marked
    THEN finish_visit_no_remove(visit_inputs(ns, [st EXCEPT !.on_stack = @ \cup {id}], id, 1), id)
    ELSE [st EXCEPT !.on_stack = @ \cup {id}]

\* the body of the function
topo_sort_visit_body(ns, st, id) ==
    IF ~(id < Len(ns)) THEN [st EXCEPT !.err = Panic]
    ELSE IF id \in st.on_stack THEN [st EXCEPT !.err = CycleDetected]
    ELSE IF id \notin st.marked
    THEN finish_visit(visit_inputs(ns, [st EXCEPT !.on_stack = @ \cup {id}], id, 1), id)
    ELSE [st EXCEPT !.on_stack = (@ \cup {id}) \ {id}]

\* variant: a node found on the stack is taken as done, without an error
topo_sort_visit_ignore_cycle(ns, st, id) ==
    IF id < Len(ns) /\ id \in st.on_stack
    THEN leave_call(enter_call(st, id))
    ELSE leave_call(topo_sort_visit_body(ns, enter_call(st, id), id))

\* a call: the frame is entered, the body runs, the frame is left by the
\* return, of an error as well
topo_sort_visit(ns, st, id) ==
    leave_call(topo_sort_visit_body(ns, enter_call(st, id), id))

\* ---- Graph::compute_order --------------------------------------------------
RECURSIVE visit_all(_, _, _)

\* try! in the loop over the ids: s is the state topo_sort_visit returned
try_node(ns, s, id) ==
    IF s.err # Ok THEN s ELSE visit_all(ns, s, id + 1)

\* the loop `for id in 0..self.nodes.len()`, from id on
visit_all(ns, st, id) ==
    IF id >= Len(ns) THEN st
    ELSE IF id \notin st.marked
    THEN try_node(ns, topo_sort_visit(ns, st, id), id)
    ELSE visit_all(ns, st, id + 1)

\* variant: the order of the previous call is not cleared
compute_order_call_no_clear(ns) ==
    visit_all(ns, [marked |-> {}, on_stack |-> {}, order |-> order, err |-> Ok,
                   frames |-> <<>>, deepest |-> 0, twice |-> {}], 0)

\* the traversal on the cleared order, with fresh marked and on_stack
compute_order_call(ns) ==
    visit_all(ns, [marked |-> {}, on_stack |-> {}, order |-> <<>>, err |-> Ok,
                   frames |-> <<>>, deepest |-> 0, twice |-> {}], 0)

compute_order ==
    \E st \in {compute_order_call(nodes)} :
       /\ order' = st.order
       /\ dirty' = IF st.err = Ok THEN FALSE ELSE dirty
       /\ result' = st.err
       /\ call' = <<"compute_order">>
       /\ recursion' = [frames |-> st.frames, deepest |-> st.deepest, twice |-> st.twice]
       /\ UNCHANGED <<nodes, out, dst>>

\* ---- vocabulary of the properties -----------------------------------------
NodeIDs(ns) == 0..(Len(ns) - 1)

\* the bound input slots of node id, as indices into its inputs
BoundSlots(ns, id) == {k \in 1..Len(NodeWrapper(ns, id).inputs) : NodeWrapper(ns, id).inputs[k] # None}

HasUnboundInput(ns, id) == \E k \in 1..NodeWrapper(ns, id).num_inputs : NodeWrapper(ns, id).inputs[k] = None

FullyBound(ns) == \A id \in NodeIDs(ns) : ~HasUnboundInput(ns, id)

\* the nodes some input of node id is bound to
Upstreams(ns, id) == {NodeWrapper(ns, id).inputs[k][1] : k \in BoundSlots(ns, id)}

\* everything reachable from the set S along bindings, S included
RECURSIVE Ancestors(_, _)

\* T is S with the upstream nodes of its members added
Grown(ns, S, T) == IF T = S THEN S ELSE Ancestors(ns, T)

Ancestors(ns, S) ==
    Grown(ns, S, S \cup UNION {Upstreams(ns, x) : x \in S \cap NodeIDs(ns)})

\* the binding relation has a dependency cycle
HasCycle(ns) == \E id \in NodeIDs(ns) : id \in Ancestors(ns, Upstreams(ns, id))

Positions(ord, id) == {p \in 1..Len(ord) : ord[p] = id}

\* ord holds every NodeID exactly once and every upstream before its consumer
OrderValid(ns, ord) ==
    /\ \A id \in NodeIDs(ns) : Cardinality(Positions(ord, id)) = 1
    /\ \A id \in NodeIDs(ns) : \A up \in Upstreams(ns, id) :
           \E p \in Positions(ord, up) : \E q \in Positions(ord, id) : p < q

IsError(r) == r[1] \in {"NoSuchNode", "NoSuchInput", "InputAlreadyPatched", "NoSuchOutput",
                        "IncompleteGraph", "CycleDetected", "Panic"}

RECURSIVE TotalSlots(_)
TotalSlots(ns) == IF ns = <<>> THEN 0 ELSE Len(Head(ns).inputs) + TotalSlots(Tail(ns))

\* ---- the calls a client can make -------------------------------------------
Next ==
    \/ \E num_inputs \in 0..MaxInputs, num_outputs \in 0..MaxOutputs :
          /\ Len(nodes) < MaxNodes
          /\ TotalSlots(nodes) + num_inputs <= MaxSlots
          /\ add_node(num_inputs, num_outputs)
    \/ \E o_node \in 0..MaxNodes, o_chan \in 0..MaxOutputs,
          i_node \in 0..MaxNodes, i_chan \in 0..MaxInputs :
          patch(o_node, o_chan, i_node, i_chan)
    \/ compute_order

Spec == Init /\ [][Next]_vars

\* ---- compute_order as a function of the graph ------------------------------
\* The graphs a client can have built with add_node and patch and not yet
\* ordered: n nodes, every slot unbound or bound to an existing node.
\* compute_order reads neither num_outputs nor the OutputID of a binding
\* (mod.rs:181), so every node has one output and every binding names output 0.
SlotsOf(n, ins) == {s \in (1..n) \X (1..MaxInputs) : s[2] <= ins[s[1]]}

RECURSIVE SumTo(_, _)
SumTo(ins, n) == IF n = 0 THEN 0 ELSE ins[n] + SumTo(ins, n - 1)

InitGraphs ==
    /\ \E n \in 0..GraphNodes : \E ins \in [1..n -> 0..MaxInputs] :
          /\ SumTo(ins, n) <= GraphSlots
          /\ \E b \in [SlotsOf(n, ins) -> {None} \cup {Some(m, 0) : m \in 0..(n - 1)}] :
                nodes = [i \in 1..n |-> [num_inputs |-> ins[i],
                                         num_outputs |-> 1,
                                         inputs |-> [k \in 1..ins[i] |-> b[<<i, k>>]]]]
    /\ order = <<>>
    /\ dirty = (nodes # <<>>)
    /\ call = <<"build">>
    /\ result = Ok
    /\ recursion = NoRecursion
    /\ out = None
    /\ dst = <<>>

NextGraphs == compute_order

SpecGraphs == InitGraphs /\ [][NextGraphs]_vars

\* ---- patch as a function of the nodes and its arguments --------------------
\* Validation in patch reads the number of nodes and their arities only: the
\* graphs are those a series of add_node calls builds, and the run ends with
\* the first patch call, whatever its arguments.
NextPatch ==
    /\ call[1] # "patch"
    /\ \/ \E num_inputs \in 0..MaxInputs, num_outputs \in 0..MaxOutputs :
             /\ Len(nodes) < MaxNodes
             /\ add_node(num_inputs, num_outputs)
       \/ \E o_node \in 0..MaxNodes, o_chan \in 0..MaxOutputs,
             i_node \in 0..MaxNodes, i_chan \in 0..MaxInputs :
             patch(o_node, o_chan, i_node, i_chan)

SpecPatch == Init /\ [][NextPatch]_vars

\* ---- patch on a graph that has a binding ------------------------------------
\* add_node calls, then up to two patch calls: the second one follows a first
\* one that returned Ok, so it finds one slot of the graph bound.
BoundCount(ns) == Cardinality({s \in (1..Len(ns)) \X (1..MaxInputs) :
                                 /\ s[2] <= Len(ns[s[1]].inputs)
                                 /\ ns[s[1]].inputs[s[2]] # None})

NextRepatch ==
    \/ /\ call[1] # "patch"
       /\ \E num_inputs \in 0..MaxInputs, num_outputs \in 0..MaxOutputs :
             /\ Len(nodes) < MaxNodes
             /\ TotalSlots(nodes) + num_inputs <= MaxSlots
             /\ add_node(num_inputs, num_outputs)
    \/ /\ call[1] # "patch" \/ (result = Ok /\ BoundCount(nodes) = 1)
       /\ \E o_node \in 0..MaxNodes, o_chan \in 0..MaxOutputs,
             i_node \in 0..MaxNodes, i_chan \in 0..MaxInputs :
             patch(o_node, o_chan, i_node, i_chan)

SpecRepatch == Init /\ [][NextRepatch]_vars

\* ---- the linear chain scenario ----------------------------------------------
\* The three nodes of the chain, as <<number of inputs, number of outputs>>:
\* a source A, a node B in the middle and a sink C.
ChainA == <<0, 1>>

ChainB == <<1, 1>>

ChainC == <<1, 0>>

HasKind(ns, kind) ==
    \E id \in NodeIDs(ns) : /\ NodeWrapper(ns, id).num_inputs = kind[1]
                            /\ NodeWrapper(ns, id).num_outputs = kind[2]

\* the NodeID that add_node returned for the node of this kind
IdOf(ns, kind) ==
    CHOOSE id \in NodeIDs(ns) : /\ NodeWrapper(ns, id).num_inputs = kind[1]
                                /\ NodeWrapper(ns, id).num_outputs = kind[2]

\* The client adds each of the three nodes once, in any order, patches
\* output 0 of any node, existing or not, to input 0 of any node, and calls
\* compute_order, in any order and any number of times.
NextChain ==
    \/ \E kind \in {ChainA, ChainB, ChainC} :
          /\ ~HasKind(nodes, kind)
          /\ add_node(kind[1], kind[2])
    \/ \E o_node \in 0..Len(nodes), i_node \in 0..Len(nodes) :
          patch(o_node, 0, i_node, 0)
    \/ compute_order

SpecChain == Init /\ [][NextChain]_vars

\* ---- the Out channel of the constant node -----------------------------------
\* f32 samples are the numbers 0..MaxSample: output copies val and compares
\* nothing.
Samples == 0..MaxSample

Min(a, b) == IF a <= b THEN a ELSE b

\* Out::num_samples
num_samples_call(o) == o.count

\* variant: the whole buffer is filled
output_call_fill_all(o, d) ==
    LET upper == Len(d)
    IN [dst |-> [i \in 1..Len(d) |-> IF i <= upper THEN o.val ELSE d[i]],
        ret |-> upper]

\* Out::output: the buffer after the call and the value returned
output_call(o, d) ==
    LET upper == Min(o.count, Len(d))
    IN [dst |-> [i \in 1..Len(d) |-> IF i <= upper THEN o.val ELSE d[i]],
        ret |-> upper]

num_samples ==
    /\ call' = <<"num_samples">>
    /\ result' = <<"usize", num_samples_call(out)>>
    /\ UNCHANGED <<out, dst, nodes, order, dirty, recursion>>

output ==
    \E r \in {output_call(out, dst)} :
       /\ dst' = r.dst
       /\ call' = <<"output">>
       /\ result' = <<"usize", r.ret>>
       /\ UNCHANGED <<out, nodes, order, dirty, recursion>>

\* a channel with any count and value, and any buffer of the caller
InitOut ==
    /\ out \in [count : 0..MaxCount, val : Samples]
    /\ \E len \in 0..MaxLen : dst \in [1..len -> Samples]
    /\ call = <<"Out">>
    /\ result = Ok
    /\ nodes = <<>>
    /\ order = <<>>
    /\ dirty = FALSE
    /\ recursion = NoRecursion

NextOut == num_samples \/ output

SpecOut == InitOut /\ [][NextOut]_vars

\* ---- the Graph of src/src/graph.rs --------------------------------------------
\* This Graph has the nodes only; order, dirty and recursion are not part of
\* it and keep their initial values. Its errors carry no arguments.
InitGraphRs ==
    /\ nodes = <<>>
    /\ call = <<"Graph">>
    /\ result = Ok
    /\ order = <<>>
    /\ dirty = FALSE
    /\ recursion = NoRecursion
    /\ out = None
    /\ dst = <<>>

\* Graph::add_node of graph.rs
add_node_graph_rs(num_inputs, num_outputs) ==
    /\ LET inputs == [k \in 1..num_inputs |-> None]
           id == Len(nodes)
       IN /\ nodes' = Append(nodes, [num_inputs |-> num_inputs,
                                     num_outputs |-> num_outputs,
                                     inputs |-> inputs])
          /\ call' = <<"add_node", num_inputs, num_outputs>>
          /\ result' = <<"NodeID", id>>
    /\ UNCHANGED <<order, dirty, recursion, out, dst>>

\* Graph::patch of graph.rs: the value returned and the nodes after the call
patch_call_graph_rs(ns, o_node, o_chan, i_node, i_chan) ==
    IF o_node >= Len(ns)
    THEN [nodes |-> ns, result |-> <<"NoSuchNode">>]
    ELSE IF NodeWrapper(ns, o_node).num_outputs <= o_node
    THEN [nodes |-> ns, result |-> <<"NoSuchOutput">>]
    ELSE IF i_node >= Len(ns)
    THEN [nodes |-> ns, result |-> <<"NoSuchNode">>]
    ELSE IF i_chan >= Len(NodeWrapper(ns, i_node).inputs)
    THEN [nodes |-> ns, result |-> <<"NoSuchInput">>]
    ELSE LET old == NodeWrapper(ns, i_node).inputs[i_chan + 1]
         IN [nodes |-> [ns EXCEPT ![i_node + 1].inputs[i_chan + 1] = Some(o_node, o_chan)],
             result |-> IF old # None THEN <<"InputAlreadyPatched">> ELSE Ok]

patch_graph_rs(o_node, o_chan, i_node, i_chan) ==
    \E r \in {patch_call_graph_rs(nodes, o_node, o_chan, i_node, i_chan)} :
       /\ nodes' = r.nodes
       /\ result' = r.result
       /\ call' = <<"patch", o_node, o_chan, i_node, i_chan>>
       /\ UNCHANGED <<order, dirty, recursion, out, dst>>

\* add_node calls, then one patch call with any arguments
NextGraphRs ==
    /\ call[1] # "patch"
    /\ \/ \E num_inputs \in 0..MaxInputs, num_outputs \in 0..MaxOutputs :
             /\ Len(nodes) < MaxNodes
             /\ add_node_graph_rs(num_inputs, num_outputs)
       \/ \E o_node \in 0..MaxNodes, o_chan \in 0..MaxOutputs,
             i_node \in 0..MaxNodes, i_chan \in 0..MaxInputs :
             patch_graph_rs(o_node, o_chan, i_node, i_chan)

SpecGraphRs == InitGraphRs /\ [][NextGraphRs]_vars

\* ---- properties ------------------------------------------------------------
\* the arguments of the last call, when it was a patch
IsPatch == call[1] = "patch"

o_node_arg == call[2]

o_chan_arg == call[3]

i_node_arg == call[4]

i_chan_arg == call[5]

IsComputeOrder == call[1] = "compute_order"

\* C1: whenever the dirty flag is false, the cached order holds every
\* existing NodeID exactly once and every upstream node strictly before the
\* node whose input is bound to it.
C1_CleanOrderValid == ~dirty => OrderValid(nodes, order)

\* C2: on an acyclic graph with every input slot bound, compute_order
\* returns Ok and leaves an order that holds every NodeID exactly once and
\* every upstream node before its consumer.
C2_AcyclicBoundOrdered ==
    (IsComputeOrder /\ FullyBound(nodes) /\ ~HasCycle(nodes))
        => (result = Ok /\ OrderValid(nodes, order))

\* the diamond a -> b, a -> c, b -> d, c -> d has been ordered
C2_DiamondOrdered ==
    /\ IsComputeOrder
    /\ result = Ok
    /\ \E a, b, c, d \in NodeIDs(nodes) :
          /\ Cardinality({a, b, c, d}) = 4
          /\ Upstreams(nodes, a) = {}
          /\ Upstreams(nodes, b) = {a}
          /\ Upstreams(nodes, c) = {a}
          /\ Upstreams(nodes, d) = {b, c}

\* C3: after every add_node call, and after every patch call that changes
\* a binding, the dirty flag is true.
C3_MutationMarksDirty ==
    [][(call'[1] = "add_node" \/ (call'[1] = "patch" /\ nodes' # nodes)) => dirty']_vars

\* C4: a compute_order call that returns an error leaves the cached order
\* as it was before the call.
C4_FailedOrderUntouched ==
    [][(call'[1] = "compute_order" /\ IsError(result')) => order' = order]_vars

\* C5: after a compute_order call that returns an error the dirty flag is
\* true, and the dirty flag goes from true to false only in a compute_order
\* call that returns Ok.
C5_FailedStaysDirty ==
    [][/\ (call'[1] = "compute_order" /\ IsError(result')) => dirty'
       /\ (dirty /\ ~dirty') => (call'[1] = "compute_order" /\ result' = Ok)]_vars

\* C6 as stated: compute_order on a graph with a dependency cycle returns
\* CycleDetected, whatever other nodes and bindings the graph has.
C6_CycleAlwaysDetected == (IsComputeOrder /\ HasCycle(nodes)) => result = CycleDetected

\* C6 as amended: compute_order on a graph with a dependency cycle fails,
\* with CycleDetected when every input slot is bound, and otherwise with
\* CycleDetected or with IncompleteGraph(n) for a node n with an unbound input.
C6_CycleFails ==
    IsComputeOrder
        => \/ result = CycleDetected
           \/ /\ ~FullyBound(nodes)
              /\ result[1] = "IncompleteGraph"
              /\ result[2] \in NodeIDs(nodes)
              /\ HasUnboundInput(nodes, result[2])
           \/ ~HasCycle(nodes)

\* a two-node cycle next to a third, fully wired node has been rejected
C6_TwoCycleRejected ==
    /\ IsComputeOrder
    /\ result = CycleDetected
    /\ FullyBound(nodes)
    /\ \E a, b, c \in NodeIDs(nodes) :
          /\ Cardinality({a, b, c}) = 3
          /\ b \in Upstreams(nodes, a)
          /\ a \in Upstreams(nodes, b)
          /\ Upstreams(nodes, c) = {}

\* C7 as stated: compute_order on a graph with an unbound input slot
\* returns IncompleteGraph(n) for a node n that has an unbound input, however
\* the other nodes are wired.
C7_UnboundAlwaysIncomplete ==
    (IsComputeOrder /\ ~FullyBound(nodes))
        => /\ result[1] = "IncompleteGraph"
           /\ result[2] \in NodeIDs(nodes)
           /\ HasUnboundInput(nodes, result[2])

\* C7 as amended: compute_order on a graph with an unbound input slot fails,
\* with IncompleteGraph(n) for a node n that has an unbound input, or with
\* CycleDetected when the graph also has a dependency cycle.
C7_UnboundFails ==
    (IsComputeOrder /\ ~FullyBound(nodes))
        => \/ /\ result[1] = "IncompleteGraph"
              /\ result[2] \in NodeIDs(nodes)
              /\ HasUnboundInput(nodes, result[2])
           \/ /\ result = CycleDetected
              /\ HasCycle(nodes)

\* a node with an unbound input has been reported although an earlier node
\* is fully wired to its upstream
C7_UnboundReported ==
    /\ IsComputeOrder
    /\ result[1] = "IncompleteGraph"
    /\ HasUnboundInput(nodes, result[2])
    /\ \E a \in NodeIDs(nodes) :
          /\ a # result[2]
          /\ Upstreams(nodes, a) # {}
          /\ ~HasUnboundInput(nodes, a)

\* C8: compute_order returns CycleDetected only on a graph with a
\* dependency cycle and IncompleteGraph(n) only for a node n with an unbound
\* input; a node reached twice is not reported as a cycle.
C8_NoFalsePositive ==
    IsComputeOrder
        => /\ result = CycleDetected => HasCycle(nodes)
           /\ result[1] = "IncompleteGraph"
                 => (result[2] \in NodeIDs(nodes) /\ HasUnboundInput(nodes, result[2]))
           /\ result[1] \in {"Ok", "CycleDetected", "IncompleteGraph"}

\* a node with two inputs bound to the same upstream node, itself shared
\* with another consumer, has been ordered
C8_SharedUpstreamOrdered ==
    /\ IsComputeOrder
    /\ result = Ok
    /\ \E a, b, c \in NodeIDs(nodes) :
          /\ Cardinality({a, b, c}) = 3
          /\ Cardinality(BoundSlots(nodes, b)) = 2
          /\ Upstreams(nodes, b) = {a}
          /\ a \in Upstreams(nodes, c)

\* C9: patch returns the error of the first failing check in the order
\* o_node exists, o_chan < outputs of o_node, i_node exists, i_chan < inputs
\* of i_node.
C9_PatchValidationOrder ==
    IsPatch =>
        IF ~(o_node_arg \in NodeIDs(nodes))
        THEN result = NoSuchNode(o_node_arg)
        ELSE IF ~(o_chan_arg < NodeWrapper(nodes, o_node_arg).num_outputs)
        THEN result = NoSuchOutput(o_node_arg, o_chan_arg)
        ELSE IF ~(i_node_arg \in NodeIDs(nodes))
        THEN result = NoSuchNode(i_node_arg)
        ELSE IF ~(i_chan_arg < NodeWrapper(nodes, i_node_arg).num_inputs)
        THEN result = NoSuchInput(i_node_arg, i_chan_arg)
        ELSE result[1] \in {"Ok", "InputAlreadyPatched"}

\* a patch in which checks (2), (3) and (4) all fail has returned NoSuchOutput
C9_SeveralChecksFail ==
    /\ IsPatch
    /\ o_node_arg \in NodeIDs(nodes)
    /\ ~(o_chan_arg < NodeWrapper(nodes, o_node_arg).num_outputs)
    /\ ~(i_node_arg \in NodeIDs(nodes))
    /\ result = NoSuchOutput(o_node_arg, o_chan_arg)

\* C10 as stated: a patch whose o_node or i_node does not exist returns
\* NoSuchNode, whatever o_chan and i_chan are and whether or not the other
\* node exists.
C10_MissingNodeAlwaysNoSuchNode ==
    (IsPatch /\ (~(o_node_arg \in NodeIDs(nodes)) \/ ~(i_node_arg \in NodeIDs(nodes))))
        => result[1] = "NoSuchNode"

\* C10 as amended: a patch whose o_node does not exist returns
\* NoSuchNode(o_node) whatever the other arguments are; a patch whose o_node
\* exists and whose i_node does not returns NoSuchNode(i_node) when o_chan is
\* an output of o_node and NoSuchOutput(o_node, o_chan) when it is not.
C10_MissingNode ==
    IsPatch =>
        /\ ~(o_node_arg \in NodeIDs(nodes)) => result = NoSuchNode(o_node_arg)
        /\ (o_node_arg \in NodeIDs(nodes) /\ ~(i_node_arg \in NodeIDs(nodes)))
              => IF o_chan_arg < NodeWrapper(nodes, o_node_arg).num_outputs
                 THEN result = NoSuchNode(i_node_arg)
                 ELSE result = NoSuchOutput(o_node_arg, o_chan_arg)

\* a patch with a missing o_node, an existing i_node and an i_chan out of
\* range has returned NoSuchNode(o_node)
C10_MissingOutputNode ==
    /\ IsPatch
    /\ ~(o_node_arg \in NodeIDs(nodes))
    /\ i_node_arg \in NodeIDs(nodes)
    /\ ~(i_chan_arg < NodeWrapper(nodes, i_node_arg).num_inputs)
    /\ result = NoSuchNode(o_node_arg)

\* the slots of the graph, as <<NodeID, input index>>
Slots(ns) == {s \in NodeIDs(ns) \X (0..(MaxInputs - 1)) : s[2] < Len(NodeWrapper(ns, s[1]).inputs)}

\* the binding of a slot
Binding(ns, s) == NodeWrapper(ns, s[1]).inputs[s[2] + 1]

\* C11: a patch call that returns NoSuchNode, NoSuchOutput or NoSuchInput
\* leaves the nodes, every input binding of every node and the cached order
\* as they were before the call.
C11_FailedPatchNoMutation ==
    [][(call'[1] = "patch" /\ result'[1] \in {"NoSuchNode", "NoSuchOutput", "NoSuchInput"})
          => /\ Len(nodes') = Len(nodes)
             /\ Slots(nodes') = Slots(nodes)
             /\ \A s \in Slots(nodes) : Binding(nodes', s) = Binding(nodes, s)
             /\ nodes' = nodes
             /\ order' = order]_vars

\* a graph with a bound slot on which a second patch, naming an output that
\* its existing o_node does not have and an existing slot, returned
\* NoSuchOutput
C11_RejectedOnBoundGraph ==
    /\ IsPatch
    /\ result = NoSuchOutput(o_node_arg, o_chan_arg)
    /\ <<i_node_arg, i_chan_arg>> \in Slots(nodes)
    /\ BoundCount(nodes) = 1

\* C12: when all four validations of patch(o_node, o_chan, i_node, i_chan)
\* pass, the slot (i_node, i_chan) holds (o_node, o_chan) after the call and
\* no other binding changes; the call returns InputAlreadyPatched exactly when
\* the slot was bound before the call and Ok exactly when it was unbound.
C12_PatchOverwrites ==
    [][(/\ call'[1] = "patch"
        /\ call'[2] \in NodeIDs(nodes)
        /\ call'[3] < NodeWrapper(nodes, call'[2]).num_outputs
        /\ <<call'[4], call'[5]>> \in Slots(nodes))
          => /\ Len(nodes') = Len(nodes)
             /\ Slots(nodes') = Slots(nodes)
             /\ Binding(nodes', <<call'[4], call'[5]>>) = Some(call'[2], call'[3])
             /\ \A s \in Slots(nodes) \ {<<call'[4], call'[5]>>} :
                   Binding(nodes', s) = Binding(nodes, s)
             /\ (result' = InputAlreadyPatched(call'[4], call'[5]))
                   <=> (Binding(nodes, <<call'[4], call'[5]>>) # None)
             /\ (result' = Ok) <=> (Binding(nodes, <<call'[4], call'[5]>>) = None)]_vars

\* a second patch of the only bound slot has returned InputAlreadyPatched
\* and the slot holds the source of that second call
C12_SecondSourceWins ==
    /\ IsPatch
    /\ <<i_node_arg, i_chan_arg>> \in Slots(nodes)
    /\ result = InputAlreadyPatched(i_node_arg, i_chan_arg)
    /\ Binding(nodes, <<i_node_arg, i_chan_arg>>) = Some(o_node_arg, o_chan_arg)
    /\ BoundCount(nodes) = 1

\* what compute_order returns and caches when it is called in this state
SameAgain(st) == st.err = Ok /\ st.order = order

\* C13: when compute_order has returned Ok, the dirty flag is false, and a
\* second call made with no add_node or patch in between returns Ok too,
\* caches the same order and leaves the dirty flag false.
C13_ComputeOrderIdempotent ==
    /\ []((IsComputeOrder /\ result = Ok)
            => (~dirty /\ SameAgain(compute_order_call(nodes))))
    /\ [][(IsComputeOrder /\ result = Ok /\ call'[1] = "compute_order")
            => (result' = Ok /\ order' = order /\ ~dirty')]_vars

\* compute_order has returned Ok on a graph of three or more nodes with a
\* bound slot, and calling it again gives the same order
C13_SecondCallSameOrder ==
    /\ IsComputeOrder
    /\ result = Ok
    /\ Len(order) >= 3
    /\ \E id \in NodeIDs(nodes) : BoundSlots(nodes, id) # {}
    /\ ~dirty
    /\ SameAgain(compute_order_call(nodes))

\* C14: the k-th add_node call (counting from 0) returns NodeID k, whatever
\* patch and compute_order calls are made in between: add_node returns the
\* number of nodes added before it, which no earlier call returned, and is the
\* only call that adds a node; the NodeID of a node never changes.
C14_NodeIDsInCallOrder ==
    [][/\ (call'[1] = "add_node")
            => /\ result' = <<"NodeID", Len(nodes)>>
               /\ result'[2] \notin NodeIDs(nodes)
               /\ Len(nodes') = Len(nodes) + 1
               /\ NodeWrapper(nodes', result'[2]).num_inputs = call'[2]
               /\ NodeWrapper(nodes', result'[2]).num_outputs = call'[3]
       /\ (call'[1] # "add_node") => Len(nodes') = Len(nodes)
       /\ \A kind \in {ChainA, ChainB, ChainC} :
             HasKind(nodes, kind) => IdOf(nodes', kind) = IdOf(nodes, kind)]_vars

\* the third add_node call has returned NodeID 2, after a patch that bound a
\* slot and a compute_order call
C14_ThirdNodeAfterOtherCalls ==
    /\ call[1] = "add_node"
    /\ result = <<"NodeID", 2>>
    /\ Len(nodes) = 3
    /\ BoundCount(nodes) >= 1
    /\ order # <<>>

\* the three nodes are in the graph and its bindings are A.0 -> B.0 and
\* B.0 -> C.0
IsChain(ns) ==
    /\ HasKind(ns, ChainA) /\ HasKind(ns, ChainB) /\ HasKind(ns, ChainC)
    /\ NodeWrapper(ns, IdOf(ns, ChainB)).inputs = <<Some(IdOf(ns, ChainA), 0)>>
    /\ NodeWrapper(ns, IdOf(ns, ChainC)).inputs = <<Some(IdOf(ns, ChainB), 0)>>

\* C15: on the chain A.0 -> B.0, B.0 -> C.0 of A (0 inputs, 1 output),
\* B (1 input, 1 output) and C (1 input, 0 outputs), compute_order returns Ok
\* and the cached order is exactly [A, B, C], whatever the order in which the
\* three nodes were added.
C15_LinearChain ==
    (IsComputeOrder /\ IsChain(nodes))
        => /\ result = Ok
           /\ order = <<IdOf(nodes, ChainA), IdOf(nodes, ChainB), IdOf(nodes, ChainC)>>

\* the chain whose nodes were added in the order C, B, A has been ordered
C15_ChainAddedBackwards ==
    /\ IsComputeOrder
    /\ IsChain(nodes)
    /\ IdOf(nodes, ChainC) = 0 /\ IdOf(nodes, ChainB) = 1 /\ IdOf(nodes, ChainA) = 2
    /\ order = <<2, 1, 0>>

\* C16: output(dst) on the channel with count c and value v returns
\* min(c, len(dst)), sets the first min(c, len(dst)) entries of dst to v,
\* leaves the length of dst and every later entry as they were, and leaves
\* num_samples() equal to c.
C16_OutputFillsPrefix ==
    [][(call'[1] = "output")
          => /\ result' = <<"usize", Min(out.count, Len(dst))>>
             /\ (out.count >= Len(dst)) => result'[2] = Len(dst)
             /\ (out.count <= Len(dst)) => result'[2] = out.count
             /\ Len(dst') = Len(dst)
             /\ \A i \in 1..Len(dst) :
                   dst'[i] = IF i <= result'[2] THEN out.val ELSE dst[i]
             /\ num_samples_call(out') = out.count
             /\ out'.val = out.val]_vars

\* the channel with count 4 has written 4 samples into a buffer of 6, whose
\* last two entries still hold another value
C16_FourOfSix ==
    /\ call[1] = "output"
    /\ out.count = 4
    /\ Len(dst) = 6
    /\ result = <<"usize", 4>>
    /\ \A i \in 1..4 : dst[i] = out.val
    /\ dst[5] # out.val /\ dst[6] # out.val

\* C17 as stated: compute_order returns on every graph, and the depth of the
\* topo_sort_visit recursion is at most the number of nodes, a node being
\* entered a second time on a recursion path only when the call errors out.
C17_DepthWithinNodes ==
    IsComputeOrder
        => /\ recursion.deepest <= Len(nodes)
           /\ recursion.twice # {} => result # Ok

\* C17 as amended: compute_order returns on every graph, with Ok,
\* CycleDetected or IncompleteGraph; every call of topo_sort_visit has returned
\* by then; the depth of the recursion is at most the number of nodes plus
\* one, and at most the number of nodes unless CycleDetected is returned; a
\* node is entered while an earlier call for it has not returned only once,
\* by the call that returns CycleDetected.
C17_DepthWithinNodesPlusOne ==
    IsComputeOrder
        => /\ \/ result = Ok
              \/ result = CycleDetected
              \/ \E id \in NodeIDs(nodes) : result = IncompleteGraph(id)
           /\ recursion.frames = <<>>
           /\ recursion.deepest <= Len(nodes) + 1
           /\ (result # CycleDetected)
                 => (recursion.deepest <= Len(nodes) /\ recursion.twice = {})
           /\ (result = CycleDetected) => Cardinality(recursion.twice) = 1

\* a cycle through all three or more nodes of a graph has been found at
\* depth one more than the number of nodes
C17_CycleThroughAllNodes ==
    /\ IsComputeOrder
    /\ Len(nodes) >= 3
    /\ result = CycleDetected
    /\ recursion.deepest = Len(nodes) + 1

\* C18: every bound input slot holds a pair (n, o) in which n is the NodeID
\* of an existing node and o is less than the number of outputs of n, and
\* the assertion id < nodes.len() of topo_sort_visit has never failed.
C18_BindingsReferToOutputs ==
    /\ \A s \in Slots(nodes) :
          Binding(nodes, s) # None
             => /\ Binding(nodes, s)[1] \in NodeIDs(nodes)
                /\ Binding(nodes, s)[2] < NodeWrapper(nodes, Binding(nodes, s)[1]).num_outputs
    /\ result # Panic

\* compute_order has run without a failed assertion on a graph with two
\* bound slots
C18_OrderedWithBindings ==
    /\ IsComputeOrder
    /\ BoundCount(nodes) = 2
    /\ result \in {Ok, CycleDetected}

\* C19: the graph holds as many input slots for a node as the node had
\* inputs when it was added; the slots of a node are all unbound right after
\* its add_node call; no later add_node, patch or compute_order call changes
\* the number of slots of a node.
C19_SlotCountIsArity ==
    /\ [](\A id \in NodeIDs(nodes) :
             Len(NodeWrapper(nodes, id).inputs) = NodeWrapper(nodes, id).num_inputs)
    /\ [][/\ (call'[1] = "add_node")
                => /\ Len(nodes') = Len(nodes) + 1
                   /\ Len(NodeWrapper(nodes', Len(nodes)).inputs) = call'[2]
                   /\ \A k \in 1..call'[2] : NodeWrapper(nodes', Len(nodes)).inputs[k] = None
           /\ \A id \in NodeIDs(nodes) :
                 /\ id \in NodeIDs(nodes')
                 /\ Len(NodeWrapper(nodes', id).inputs) = Len(NodeWrapper(nodes, id).inputs)
                 /\ NodeWrapper(nodes', id).num_inputs = NodeWrapper(nodes, id).num_inputs]_vars

\* a node with one input has been added, its slot unbound, to a graph in
\* which a slot of an earlier node is bound and has been ordered
C19_FreshSlotsUnbound ==
    /\ call = <<"add_node", 1, 0>>
    /\ Len(nodes) = 3
    /\ NodeWrapper(nodes, 2).inputs = <<None>>
    /\ BoundCount(nodes) = 1
    /\ order # <<>>

\* C20: patch of src/src/graph.rs returns NoSuchOutput exactly when o_node
\* exists and o_chan is not below the number of outputs of o_node; a call
\* whose o_chan is not an output of the existing o_node creates no binding.
C20_NoSuchOutputExact ==
    [][(call'[1] = "patch")
          => /\ (result' = <<"NoSuchOutput">>)
                   <=> /\ call'[2] \in NodeIDs(nodes)
                       /\ call'[3] >= NodeWrapper(nodes, call'[2]).num_outputs
             /\ (/\ call'[2] \in NodeIDs(nodes)
                 /\ call'[3] >= NodeWrapper(nodes, call'[2]).num_outputs)
                   => nodes' = nodes]_vars
====
